---- MODULE Spec2Model ----
(***************************************************************************)
(* phf_mut: perfectly hashed mutable containers.                           *)
(*                                                                         *)
(* A model of Map<V, H> and Set<H> (src/src/lib.rs) over the Pairs adapter *)
(* of src/src/tests.rs.  Indices are 0-based as in the source; a backing   *)
(* array of length L is a sequence whose element i+1 is slot i.  An        *)
(* Option<T> is a sequence of length at most one: <<>> is None and <<x>>   *)
(* is Some(x).  A panic ends the program: a panicked container takes no    *)
(* further step.  The caller is the test program of src/src/tests.rs: it   *)
(* makes a call, looks at what the call did (the call's record is kept     *)
(* until then) and goes on to the next call.                               *)
(***************************************************************************)
EXTENDS Integers, Sequences, FiniteSets, TLC

VARIABLES
    mn,        \* Map.hash: the n of the map's adapter Pairs { n }
    mstate,    \* "none" (the program builds a set), "unbuilt", "live" or
               \* "panicked"
    mfail,     \* the panic that ended the program, "" while there is none
    mbacking,  \* Map.backing: Box<[V]>
    held,      \* the caller's variable that swap(k, &mut v) borrows
    miter,     \* the live iterator over the map, if any
    mout,      \* what the live iterator's next() has returned so far
    mlast,     \* the call the caller is looking at: name, arguments, result
    mpre,      \* backing and held as they were when that call began
    track,     \* whether this run keeps the history mfill and written
    mfill,     \* Some(v) for a map that new or from_element filled with v
    written    \* the indices of such a map written through since it was built

mvars == <<mn, mstate, mfail, mbacking, held, miter, mout, mlast, mpre,
           track, mfill, written>>

VARIABLES
    sn,        \* Set.hash: the n of the set's adapter Pairs { n }
    sstate,    \* "none" (the program builds a map), "unbuilt", "live" or
               \* "panicked"
    sfail,     \* the panic that ended the program, "" while there is none
    sbits,     \* Set.backing: the BitVec
    siter,     \* the live SetIter, if any: its field next
    sout,      \* what the live SetIter's next() has returned so far
    slast,     \* the call the caller is looking at: name, key, result
    spre,      \* the bits as they were when that call began
    members    \* the indices whose last insert or erase was an insert

svars == <<sn, sstate, sfail, sbits, siter, sout, slast, spre, members>>

VARIABLES
    kn,        \* the n of the adapter Pairs { n } whose domain is iterated
    kstate,    \* "none" (the program builds a container), "unbuilt", "live"
               \* or "panicked"
    kfail,     \* the panic that ended the program, "" while there is none
    knext,     \* KeyIter.next
    kout       \* what the KeyIter's next() has returned so far

kvars == <<kn, kstate, kfail, knext, kout>>

VARIABLES
    cn,        \* the n of the adapter of a container that is cloned
    ckind,     \* "none" (the program clones nothing), "map" or "set"
    cstate,    \* "unbuilt" or "live"
    corig,     \* the backing of the container that clone() is called on
    cclone,    \* the container clone() returned, None before the call
    cheld,     \* the caller's variable that swap(k, &mut v) borrows
    csnap,     \* Some(the backing cloned), as it was when clone() was called
    ctouched,  \* which of the two containers was written to since then
    ccalls     \* the number of insert, swap and erase calls made so far

cvars == <<cn, ckind, cstate, corig, cclone, cheld, csnap, ctouched, ccalls>>

vars == <<mvars, svars, kvars, cvars>>

(* ------------------------------ bounds -------------------------------- *)

\* Largest n of Pairs::new(n) a map is built over.
MaxMapN == 2
\* Largest n of Pairs::new(n) a set is built over.
MaxSetN == 3
\* Largest n of Pairs::new(n) whose domain a KeyIter goes through.
MaxKeyN == 4
\* The value type V has the values 0 .. NumValues - 1.
NumValues == 2
\* Most calls of next() on one iterator after it first returned None.
MaxExtraNext == 2
\* Most distinct indices written in a run that keeps the history of writes.
MaxWritten == 2
\* Most insert, swap and erase calls in a run that clones a container.
MaxCloneCalls == 2

\* V::default() of an integer value type.
DefaultValue == 0

Values == 0 .. (NumValues - 1)

None == <<>>
Some(x) == <<x>>

(* ------------------------- the Pairs adapter -------------------------- *)

\* Pairs::sort
sort(k) == IF k[1] > k[2] THEN <<k[2], k[1]>> ELSE <<k[1], k[2]>>

\* Pairs::size_when
size_when(m) == ((m + 1) * m) \div 2

\* <Pairs as PerfectHash>::hash
hash(k) == LET ab == sort(k) IN ab[1] + size_when(ab[2])

\* <Pairs as PerfectHash>::size, of the adapter Pairs { n: nn }
size(nn) == size_when(nn)

\* The loop of Pairs::invert from iteration `sub` on; <<>> is a panic.
RECURSIVE invert_from(_, _, _)
invert_from(nn, index, sub) ==
    IF sub >= nn
    THEN None
    ELSE LET use_b  == nn - 1 - sub
             offset == size_when(use_b)
         IN  IF offset <= index
             THEN IF index - offset <= use_b
                  THEN Some(<<index - offset, use_b>>)
                  ELSE None
             ELSE invert_from(nn, index, sub + 1)

\* <Pairs as HashInverse>::invert: Some(key), or None when it panics.
invert(nn, index) ==
    IF index < size(nn) THEN invert_from(nn, index, 0) ELSE None

\* The keys of the domain of Pairs { n: nn }.
Domain(nn) == (0 .. (nn - 1)) \X (0 .. (nn - 1))

\* The keys a caller passes: the domain, and three pairs outside it.
Keys(nn) == Domain(nn) \cup {<<0, nn>>, <<nn, 0>>, <<nn, nn>>}

(* ------------------------------- Map ---------------------------------- *)

\* The bounds check of indexing a slice: backing[idx] panics unless idx < len.
in_bounds(b, idx) == idx < Len(b)

\* Slot idx of a backing array.
slot(b, idx) == b[idx + 1]

\* store with the index taken as 1-based.
store_one_based(b, idx, v) == [b EXCEPT ![IF idx = 0 THEN 1 ELSE idx] = v]

\* backing[idx] = v
store(b, idx, v) == [b EXCEPT ![idx + 1] = v]

\* swapped with the caller's value cloned into the slot, not exchanged.
swapped_cloned(b, idx, v) == <<[b EXCEPT ![idx + 1] = v], v>>

\* std::mem::swap(&mut backing[idx], v): the backing array and the caller's
\* variable afterwards.
swapped(b, idx, v) == <<[b EXCEPT ![idx + 1] = v], b[idx + 1]>>

\* Map::len
len == Len(mbacking)

\* Map::is_empty
is_empty == Len(mbacking) = 0

\* What Map::get(k) returns on a map whose backing array is b: Some(the
\* value of the slot it refers to), or None when the call panics.
get_in(b, k) ==
    LET idx == hash(k) IN
    IF in_bounds(b, idx) THEN Some(slot(b, idx)) ELSE None

\* Map::get(k), and the indexed read map[k], on the map as it is.
get(k) == get_in(mbacking, k)

\* The iterator record of a map no iterator borrows.
NoIter == [kind |-> "none", rest |-> 0, pos |-> 0]

\* The record of a call.
Call(op, key, val, ret) == [op |-> op, key |-> key, val |-> val, ret |-> ret]

NoCall == Call("", None, None, None)

NoPre == [backing |-> <<>>, held |-> None]

\* The history of a write to slot idx, kept for a map that was filled
\* uniformly; such a run writes at most MaxWritten distinct indices.
Record(idx) ==
    IF mfill # None
    THEN /\ Cardinality(written \cup {idx}) <= MaxWritten
         /\ written' = written \cup {idx}
    ELSE UNCHANGED written

\* No call is under way: the map is live, no iterator borrows it, and the
\* caller is not looking at a call.
Idle == mstate = "live" /\ miter.kind = "none" /\ mlast = NoCall

\* A call on a live map that no iterator borrows.
Begin ==
    /\ Idle
    /\ mpre' = [backing |-> mbacking, held |-> Some(held)]

\* An index-out-of-range panic of a call on the map: nothing is stored.
OutOfRange ==
    /\ mstate' = "panicked"
    /\ mfail' = "out_of_range"
    /\ UNCHANGED <<mbacking, held, written>>

\* The vectors a caller hands to from_initial: every length up to one more
\* than the domain's size, filled with an arithmetic pattern of values.
InitVecs(nn) ==
    { [i \in 1 .. l |-> (a + b * i) % NumValues] :
        l \in 0 .. (size(nn) + 1), a \in Values, b \in 0 .. 1 }

\* filled with the loop run one time too few.
RECURSIVE filled_short(_, _)
filled_short(sz, v) ==
    IF sz <= 1 THEN <<>> ELSE Append(filled_short(sz - 1, v), v)

\* filled with V::default() pushed whatever the value is.
RECURSIVE filled_default(_, _)
filled_default(sz, v) ==
    IF sz = 0 THEN <<>> ELSE Append(filled_default(sz - 1, v), DefaultValue)

\* The Vec that Map::new and Map::from_element fill by pushing `v` size times.
RECURSIVE filled(_, _)
filled(sz, v) == IF sz = 0 THEN <<>> ELSE Append(filled(sz - 1, v), v)

\* Map { hash: hash, backing: b }
Built(b, fill) ==
    /\ mstate = "unbuilt"
    /\ mstate' = "live"
    /\ mbacking' = b
    /\ mfill' = IF track THEN fill ELSE None
    /\ UNCHANGED <<svars, kvars, cvars,
                   mn, mfail, held, miter, mout, mpre, track, written>>

\* Map::new
MapNew ==
    /\ Built(filled(size(mn), DefaultValue), Some(DefaultValue))
    /\ mlast' = Call("new", None, None, None)

\* Map::from_element
MapFromElement(v) ==
    /\ Built(filled(size(mn), v), Some(v))
    /\ mlast' = Call("from_element", None, Some(v), None)

\* length_ok that only rejects a vector that is too short.
length_at_least(sz, init) == sz <= Len(init)

\* assert_eq!(size, init.len())
length_ok(sz, init) == sz = Len(init)

\* Map::from_initial
MapFromInitial(init) ==
    /\ mlast' = Call("from_initial", None, Some(init), None)
    /\ IF length_ok(size(mn), init)
       THEN Built(init, None)
       ELSE /\ mstate = "unbuilt"
            /\ mstate' = "panicked"
            /\ mfail' = "length_mismatch"
            /\ UNCHANGED <<svars, kvars, cvars,
                           mn, mbacking, held, miter, mout, mpre, track,
                           mfill, written>>

\* Map::insert
MapInsert(k, v) ==
    /\ Begin
    /\ mlast' = Call("insert", Some(k), Some(v), None)
    /\ LET idx == hash(k) IN
       IF in_bounds(mbacking, idx)
       THEN /\ mbacking' = store(mbacking, idx, v)
            /\ Record(idx)
            /\ UNCHANGED <<mstate, mfail, held>>
       ELSE OutOfRange
    /\ UNCHANGED <<svars, kvars, cvars, mn, miter, mout, track, mfill>>

\* Map::swap
MapSwap(k) ==
    /\ Begin
    /\ mlast' = Call("swap", Some(k), Some(held), None)
    /\ LET idx == hash(k) IN
       IF in_bounds(mbacking, idx)
       THEN /\ mbacking' = swapped(mbacking, idx, held)[1]
            /\ held' = swapped(mbacking, idx, held)[2]
            /\ Record(idx)
            /\ UNCHANGED <<mstate, mfail>>
       ELSE OutOfRange
    /\ UNCHANGED <<svars, kvars, cvars, mn, miter, mout, track, mfill>>

\* Map::get, and Index::index, which only calls it.
MapGet(k) ==
    /\ Begin
    /\ mlast' = Call("get", Some(k), None, get(k))
    /\ IF get(k) # None
       THEN UNCHANGED <<mstate, mfail, mbacking, held, written>>
       ELSE OutOfRange
    /\ UNCHANGED <<svars, kvars, cvars, mn, miter, mout, track, mfill>>

\* Map::get_mut, and IndexMut::index_mut, which only calls it; the caller
\* assigns w through the reference it gets.
MapGetMut(k, w) ==
    /\ Begin
    /\ mlast' = Call("get_mut", Some(k), Some(w), None)
    /\ LET idx == hash(k) IN
       IF in_bounds(mbacking, idx)
       THEN /\ mbacking' = store(mbacking, idx, w)
            /\ Record(idx)
            /\ UNCHANGED <<mstate, mfail, held>>
       ELSE OutOfRange
    /\ UNCHANGED <<svars, kvars, cvars, mn, miter, mout, track, mfill>>

\* std::slice::Iter::next and IterMut::next on the backing array, `rest`
\* elements of which are consumed: a reference to the next slot (its index),
\* or None at the end.
slice_next(b, rest) == IF rest < Len(b) THEN Some(rest) ELSE None

\* What draining a fresh slice iterator yields: Map::values().collect().
RECURSIVE collect(_, _)
collect(b, rest) ==
    IF slice_next(b, rest) = None
    THEN <<>>
    ELSE <<slice_next(b, rest)[1]>> \o collect(b, rest + 1)

\* The key MapIter::next pairs with the slot it yields.
iter_key(nn, pos) == invert(nn, pos)

\* iter_advance that forgets the increment.
iter_stuck(pos) == pos

\* The position MapIter::next leaves in self.pos.
iter_advance(pos) == pos + 1

\* The number of times the live iterator has returned None.
Nones == Cardinality({j \in 1 .. Len(mout) : mout[j] = None})

\* Map::iter, Map::iter_mut, Map::values, Map::values_mut
MapIterStart(kind) ==
    /\ Idle
    /\ miter' = [kind |-> kind, rest |-> 0, pos |-> 0]
    /\ mout' = <<>>
    /\ UNCHANGED <<svars, kvars, cvars,
                   mn, mstate, mfail, mbacking, held, mlast, mpre, track,
                   mfill, written>>

\* What the caller may do with the reference an iterator yields: assign
\* through it (Some(w)) when the iterator is a mutable one, or only read.
Writes(kind) ==
    {None} \cup
    (IF kind \in {"iter_mut", "values_mut"} THEN {Some(w) : w \in Values}
     ELSE {})

\* MapIter::next, MapIterMut::next, and next of the slice iterators that
\* values and values_mut return.
MapIterNext(w) ==
    /\ mstate = "live"
    /\ miter.kind # "none"
    /\ Nones <= MaxExtraNext
    /\ LET r == slice_next(mbacking, miter.rest) IN
       IF r = None
       THEN /\ mout' = Append(mout, None)
            /\ w = None
            /\ UNCHANGED <<mstate, mfail, mbacking, miter, written>>
       ELSE IF miter.kind \in {"values", "values_mut"}
       THEN /\ mout' = Append(mout, Some([key |-> None, ref |-> r[1]]))
            /\ miter' = [miter EXCEPT !.rest = @ + 1]
            /\ IF w = None
               THEN UNCHANGED <<mbacking, written>>
               ELSE /\ mbacking' = store(mbacking, r[1], w[1])
                    /\ Record(r[1])
            /\ UNCHANGED <<mstate, mfail>>
       ELSE IF iter_key(mn, miter.pos) = None
       THEN /\ mstate' = "panicked"
            /\ mfail' = "invert"
            /\ w = None
            /\ miter' = [miter EXCEPT !.rest = @ + 1]
            /\ UNCHANGED <<mout, mbacking, written>>
       ELSE /\ mout' = Append(mout, Some([key |-> iter_key(mn, miter.pos),
                                          ref |-> r[1]]))
            /\ miter' = [miter EXCEPT !.rest = @ + 1,
                                      !.pos = iter_advance(@)]
            /\ IF w = None
               THEN UNCHANGED <<mbacking, written>>
               ELSE /\ mbacking' = store(mbacking, r[1], w[1])
                    /\ Record(r[1])
            /\ UNCHANGED <<mstate, mfail>>
    /\ UNCHANGED <<svars, kvars, cvars, mn, held, mlast, mpre, track, mfill>>

\* The iterator goes out of scope.
MapIterDrop ==
    /\ mstate = "live"
    /\ miter.kind # "none"
    /\ miter' = NoIter
    /\ mout' = <<>>
    /\ UNCHANGED <<svars, kvars, cvars,
                   mn, mstate, mfail, mbacking, held, mlast, mpre, track,
                   mfill, written>>

\* The caller has looked at what its last call did and goes on.
MapResume ==
    /\ mstate = "live"
    /\ mlast # NoCall
    /\ mlast' = NoCall
    /\ mpre' = NoPre
    /\ UNCHANGED <<svars, kvars, cvars,
                   mn, mstate, mfail, mbacking, held, miter, mout, track,
                   mfill, written>>

MapStart ==
    /\ mn \in 0 .. MaxMapN
    /\ mstate = "unbuilt"
    /\ mfail = ""
    /\ mbacking = <<>>
    /\ held \in Values
    /\ miter = NoIter
    /\ mout = <<>>
    /\ mlast = NoCall
    /\ mpre = NoPre
    /\ track \in BOOLEAN
    /\ mfill = None
    /\ written = {}

\* The program builds no map.
MapNone ==
    /\ mn = 0
    /\ mstate = "none"
    /\ mfail = ""
    /\ mbacking = <<>>
    /\ held = DefaultValue
    /\ miter = NoIter
    /\ mout = <<>>
    /\ mlast = NoCall
    /\ mpre = NoPre
    /\ track = FALSE
    /\ mfill = None
    /\ written = {}

MapNext ==
    \/ MapNew
    \/ \E v \in Values : MapFromElement(v)
    \/ mstate = "unbuilt" /\ \E init \in InitVecs(mn) : MapFromInitial(init)
    \/ Idle /\ \E k \in Keys(mn), v \in Values : MapInsert(k, v)
    \/ Idle /\ \E k \in Keys(mn) : MapSwap(k)
    \/ Idle /\ \E k \in Keys(mn) : MapGet(k)
    \/ Idle /\ \E k \in Keys(mn), w \in Values : MapGetMut(k, w)
    \/ \E kind \in {"iter", "iter_mut", "values", "values_mut"} :
          MapIterStart(kind)
    \/ miter.kind # "none" /\ \E w \in Writes(miter.kind) : MapIterNext(w)
    \/ MapIterDrop
    \/ MapResume

(* ------------------------------- Set ---------------------------------- *)

\* bit_vec::BitVec::from_elem(nbits, bit)
from_elem(nbits, bit) == [i \in 1 .. nbits |-> bit]

\* bv_get with the index wrapped into the bounds.
bv_get_wrapped(b, idx) ==
    IF Len(b) = 0 THEN None ELSE Some(b[(idx % Len(b)) + 1])

\* bit_vec::BitVec::get: None when the index is out of bounds.
bv_get(b, idx) == IF idx < Len(b) THEN Some(b[idx + 1]) ELSE None

\* bv_set that can set a bit but not clear one.
bv_set_or(b, idx, x) == [b EXCEPT ![idx + 1] = @ \/ x]

\* bit_vec::BitVec::set, on an index in bounds.
bv_set(b, idx, x) == [b EXCEPT ![idx + 1] = x]

\* bit_vec::BitVec::any
bv_any(b) == \E i \in 1 .. Len(b) : b[i]

\* bit_vec::BitVec::all
bv_all(b) == \A i \in 1 .. Len(b) : b[i]

\* Set::has: Some(the bit), or None when unwrap() panics.
has(b, index) == bv_get(b, index)

\* What Set::contains(k) returns on the set as it is, None when it panics.
contains(k) == has(sbits, hash(k))

\* Set::is_empty
set_is_empty == ~bv_any(sbits)

\* set_is_full asking for any bit, not all.
set_is_full_any == bv_any(sbits)

\* Set::is_full
set_is_full == bv_all(sbits)

SCall(op, key, ret) == [op |-> op, key |-> key, ret |-> ret]

NoSCall == SCall("", None, None)

\* No call is under way on the set.
SIdle == sstate = "live" /\ siter = None /\ slast = NoSCall

\* An index-out-of-range panic of a call on the set: no bit is stored.
SOutOfRange ==
    /\ sstate' = "panicked"
    /\ sfail' = "out_of_range"
    /\ UNCHANGED <<sbits, members>>

\* Set::new
SetNew ==
    /\ sstate = "unbuilt"
    /\ sstate' = "live"
    /\ sbits' = from_elem(size(sn), FALSE)
    /\ slast' = SCall("new", None, None)
    /\ UNCHANGED <<mvars, kvars, cvars, sn, sfail, siter, sout, spre, members>>

\* Set::insert
SetInsert(k) ==
    /\ SIdle
    /\ spre' = sbits
    /\ LET idx == hash(k)
           ret == bv_get(sbits, idx)
       IN  /\ slast' = SCall("insert", Some(k), ret)
           /\ IF ret # None
              THEN /\ sbits' = bv_set(sbits, idx, TRUE)
                   /\ members' = members \cup {idx}
                   /\ UNCHANGED <<sstate, sfail>>
              ELSE SOutOfRange
    /\ UNCHANGED <<mvars, kvars, cvars, sn, siter, sout>>

\* Set::erase
SetErase(k) ==
    /\ SIdle
    /\ spre' = sbits
    /\ LET idx == hash(k)
           ret == bv_get(sbits, idx)
       IN  /\ slast' = SCall("erase", Some(k), ret)
           /\ IF ret # None
              THEN /\ sbits' = bv_set(sbits, idx, FALSE)
                   /\ members' = members \ {idx}
                   /\ UNCHANGED <<sstate, sfail>>
              ELSE SOutOfRange
    /\ UNCHANGED <<mvars, kvars, cvars, sn, siter, sout>>

\* Set::contains
SetContains(k) ==
    /\ SIdle
    /\ spre' = sbits
    /\ slast' = SCall("contains", Some(k), contains(k))
    /\ IF contains(k) # None
       THEN UNCHANGED <<sstate, sfail, sbits, members>>
       ELSE SOutOfRange
    /\ UNCHANGED <<mvars, kvars, cvars, sn, siter, sout>>

\* Set::iter
SetIterStart ==
    /\ SIdle
    /\ siter' = Some(Len(sbits))
    /\ sout' = <<>>
    /\ UNCHANGED <<mvars, kvars, cvars,
                   sn, sstate, sfail, sbits, slast, spre, members>>

\* restart of an iterator that stays at the end once it has got there.
restart_fused(next, sz) == IF next = sz THEN sz ELSE next + 1

\* The first statement of SetIter::next: where the scan starts.
restart(next, sz) == IF next = sz THEN 0 ELSE next + 1

\* skip that stops at the first index, set or cleared.
skip_none(b, next, sz) == next

\* The while loop of SetIter::next.
RECURSIVE skip(_, _, _)
skip(b, next, sz) ==
    IF next < sz /\ has(b, next) = Some(FALSE)
    THEN skip(b, next + 1, sz)
    ELSE next

\* The field next as SetIter::next leaves it.
scan(b, next, sz) == skip(b, restart(next, sz), sz)

\* What SetIter::next returns when it leaves the field next at `next`, the
\* inversion of that index having succeeded.
yielded(nn, next) == IF next = size(nn) THEN None ELSE invert(nn, next)

\* The number of times the live SetIter has returned None.
SNones == Cardinality({j \in 1 .. Len(sout) : sout[j] = None})

\* SetIter::next
SetIterNext ==
    /\ sstate = "live"
    /\ siter # None
    /\ SNones <= MaxExtraNext
    /\ LET next == scan(sbits, siter[1], size(sn)) IN
       /\ siter' = Some(next)
       /\ IF next # size(sn) /\ invert(sn, next) = None
          THEN /\ sstate' = "panicked"
               /\ sfail' = "invert"
               /\ UNCHANGED sout
          ELSE /\ sout' = Append(sout, yielded(sn, next))
               /\ UNCHANGED <<sstate, sfail>>
    /\ UNCHANGED <<mvars, kvars, cvars, sn, sbits, slast, spre, members>>

\* The iterator goes out of scope.
SetIterDrop ==
    /\ sstate = "live"
    /\ siter # None
    /\ siter' = None
    /\ sout' = <<>>
    /\ UNCHANGED <<mvars, kvars, cvars,
                   sn, sstate, sfail, sbits, slast, spre, members>>

\* The caller has looked at what its last call did and goes on.
SetResume ==
    /\ sstate = "live"
    /\ slast # NoSCall
    /\ slast' = NoSCall
    /\ spre' = <<>>
    /\ UNCHANGED <<mvars, kvars, cvars,
                   sn, sstate, sfail, sbits, siter, sout, members>>

SetStart ==
    /\ sn \in 0 .. MaxSetN
    /\ sstate = "unbuilt"
    /\ sfail = ""
    /\ sbits = <<>>
    /\ siter = None
    /\ sout = <<>>
    /\ slast = NoSCall
    /\ spre = <<>>
    /\ members = {}

\* The program builds no set.
SetNone ==
    /\ sn = 0
    /\ sstate = "none"
    /\ sfail = ""
    /\ sbits = <<>>
    /\ siter = None
    /\ sout = <<>>
    /\ slast = NoSCall
    /\ spre = <<>>
    /\ members = {}

SetNext ==
    \/ SetNew
    \/ SIdle /\ \E k \in Keys(sn) : SetInsert(k)
    \/ SIdle /\ \E k \in Keys(sn) : SetErase(k)
    \/ SIdle /\ \E k \in Keys(sn) : SetContains(k)
    \/ SetIterStart
    \/ SetIterNext
    \/ SetIterDrop
    \/ SetResume

(* ------------------------------ KeyIter ------------------------------- *)

\* key_item with the index read after the increment.
key_item_late(nn, idx) == invert(nn, idx + 1)

\* Some(self.hash.invert(idx)) of KeyIter::next: Some(key), or None when
\* invert panics.
key_item(nn, idx) == invert(nn, idx)

\* The number of times the KeyIter has returned None.
KNones == Cardinality({j \in 1 .. Len(kout) : kout[j] = None})

\* HashInverse::iter
KeyIterNew ==
    /\ kstate = "unbuilt"
    /\ kstate' = "live"
    /\ knext' = 0
    /\ kout' = <<>>
    /\ UNCHANGED <<mvars, svars, cvars, kn, kfail>>

\* KeyIter::next
KeyIterNext ==
    /\ kstate = "live"
    /\ KNones <= MaxExtraNext
    /\ IF knext = size(kn)
       THEN /\ knext' = 0
            /\ kout' = Append(kout, None)
            /\ UNCHANGED <<kstate, kfail>>
       ELSE /\ knext' = knext + 1
            /\ IF key_item(kn, knext) = None
               THEN /\ kstate' = "panicked"
                    /\ kfail' = "invert"
                    /\ UNCHANGED kout
               ELSE /\ kout' = Append(kout, key_item(kn, knext))
                    /\ UNCHANGED <<kstate, kfail>>
    /\ UNCHANGED <<mvars, svars, cvars, kn>>

KeyStart ==
    /\ kn \in 0 .. MaxKeyN
    /\ kstate = "unbuilt"
    /\ kfail = ""
    /\ knext = 0
    /\ kout = <<>>

\* The program iterates over no domain.
KeyNone ==
    /\ kn = 0
    /\ kstate = "none"
    /\ kfail = ""
    /\ knext = 0
    /\ kout = <<>>

KeyNext ==
    \/ KeyIterNew
    \/ KeyIterNext

(* ------------------------------- Clone -------------------------------- *)

\* clone_of that hands out the backing it was given, not a copy of it.
clone_aliased(b) == [backing |-> b, fresh |-> FALSE]

\* self.backing.clone() of Clone for Map and Clone for Set: a backing of
\* its own (fresh) that holds a clone of every element.
clone_of(b) == [backing |-> b, fresh |-> TRUE]

\* The backing that a call on the original or on the clone reads and writes.
backing_of(side) ==
    IF side = "clone" /\ cclone[1].fresh THEN cclone[1].backing ELSE corig

\* The two containers a caller has: the original, and its clone once made.
Sides == IF cclone = None THEN {"original"} ELSE {"original", "clone"}

\* A write of the backing b by a call on `side`.
Put(side, b) ==
    /\ IF side = "clone" /\ cclone[1].fresh
       THEN /\ cclone' = Some([cclone[1] EXCEPT !.backing = b])
            /\ UNCHANGED corig
       ELSE /\ corig' = b
            /\ UNCHANGED cclone
    /\ ctouched' = IF cclone = None THEN ctouched ELSE ctouched \cup {side}
    /\ ccalls < MaxCloneCalls
    /\ ccalls' = ccalls + 1

\* Map::from_initial with a vector of the right length, as the map to clone.
CloneMapBuild(init) ==
    /\ ckind = "map"
    /\ cstate = "unbuilt"
    /\ length_ok(size(cn), init)
    /\ cstate' = "live"
    /\ corig' = init
    /\ UNCHANGED <<mvars, svars, kvars, cn, ckind, cclone, cheld, csnap,
                   ctouched, ccalls>>

\* Set::new, as the set to clone.
CloneSetBuild ==
    /\ ckind = "set"
    /\ cstate = "unbuilt"
    /\ cstate' = "live"
    /\ corig' = from_elem(size(cn), FALSE)
    /\ UNCHANGED <<mvars, svars, kvars, cn, ckind, cclone, cheld, csnap,
                   ctouched, ccalls>>

\* <Map as Clone>::clone, <Set as Clone>::clone
Clone ==
    /\ cstate = "live"
    /\ cclone = None
    /\ cclone' = Some(clone_of(corig))
    /\ csnap' = Some(corig)
    /\ UNCHANGED <<mvars, svars, kvars, cn, ckind, cstate, corig, cheld,
                   ctouched, ccalls>>

\* Map::insert on the original or on the clone, under a key of the domain.
CloneInsert(side, k, v) ==
    /\ ckind = "map"
    /\ cstate = "live"
    /\ in_bounds(backing_of(side), hash(k))
    /\ Put(side, store(backing_of(side), hash(k), v))
    /\ UNCHANGED <<mvars, svars, kvars, cn, ckind, cstate, cheld, csnap>>

\* Map::swap on the original or on the clone, under a key of the domain.
CloneSwap(side, k) ==
    /\ ckind = "map"
    /\ cstate = "live"
    /\ in_bounds(backing_of(side), hash(k))
    /\ Put(side, swapped(backing_of(side), hash(k), cheld)[1])
    /\ cheld' = swapped(backing_of(side), hash(k), cheld)[2]
    /\ UNCHANGED <<mvars, svars, kvars, cn, ckind, cstate, csnap>>

\* Set::insert (bit TRUE) and Set::erase (bit FALSE) on the original or on
\* the clone, under a key of the domain.
CloneSetBit(side, k, bit) ==
    /\ ckind = "set"
    /\ cstate = "live"
    /\ bv_get(backing_of(side), hash(k)) # None
    /\ Put(side, bv_set(backing_of(side), hash(k), bit))
    /\ UNCHANGED <<mvars, svars, kvars, cn, ckind, cstate, cheld, csnap>>

CloneStart ==
    /\ \/ ckind = "map" /\ cn \in 0 .. MaxMapN /\ cheld \in Values
       \/ ckind = "set" /\ cn \in 0 .. MaxSetN /\ cheld = DefaultValue
    /\ cstate = "unbuilt"
    /\ corig = <<>>
    /\ cclone = None
    /\ csnap = None
    /\ ctouched = {}
    /\ ccalls = 0

\* The program clones nothing.
CloneNone ==
    /\ cn = 0
    /\ ckind = "none"
    /\ cstate = "unbuilt"
    /\ corig = <<>>
    /\ cclone = None
    /\ cheld = DefaultValue
    /\ csnap = None
    /\ ctouched = {}
    /\ ccalls = 0

CloneNext ==
    \/ ckind = "map" /\ cstate = "unbuilt"
          /\ \E init \in InitVecs(cn) : CloneMapBuild(init)
    \/ CloneSetBuild
    \/ Clone
    \/ ckind = "map" /\ cstate = "live" /\ ccalls < MaxCloneCalls
          /\ \E side \in Sides, k \in Domain(cn), v \in Values :
                CloneInsert(side, k, v)
    \/ ckind = "map" /\ cstate = "live" /\ ccalls < MaxCloneCalls
          /\ \E side \in Sides, k \in Domain(cn) : CloneSwap(side, k)
    \/ ckind = "set" /\ cstate = "live" /\ ccalls < MaxCloneCalls
          /\ \E side \in Sides, k \in Domain(cn), bit \in BOOLEAN :
                CloneSetBit(side, k, bit)

(* --------------------------- the program ------------------------------ *)

\* The program builds one container over a Pairs adapter, a map or a set,
\* or goes through the domain of one, or builds a container and clones it.
Init ==
    \/ MapStart /\ SetNone /\ KeyNone /\ CloneNone
    \/ MapNone /\ SetStart /\ KeyNone /\ CloneNone
    \/ MapNone /\ SetNone /\ KeyStart /\ CloneNone
    \/ MapNone /\ SetNone /\ KeyNone /\ CloneStart

Next == MapNext \/ SetNext \/ KeyNext \/ CloneNext

Spec == Init /\ [][Next]_vars

(* ---------------------------- properties ------------------------------ *)

\* The keys of the map's domain, and the indices of its slots.
MKeys == Domain(mn)

\* C1: after insert(k, v) on a live map, get(k2), which is also the indexed
\* read map[k2], returns v for every key k2 of the domain with
\* hash(k2) = hash(k), the reversed pair among them, and returns what it
\* returned before the insert for every key whose hash differs.
InsertThenGet ==
    (mstate = "live" /\ mlast.op = "insert") =>
        LET k == mlast.key[1]
            v == mlast.val[1]
        IN  \A k2 \in MKeys :
               IF hash(k2) = hash(k)
               THEN get(k2) = Some(v)
               ELSE get(k2) = get_in(mpre.backing, k2)

\* An insert under a key whose reversed pair is another key, into a slot that
\* held another value, in a domain that has other slots.
InsertThenGetWitness ==
    /\ mstate = "live"
    /\ mlast.op = "insert"
    /\ mlast.key[1][1] # mlast.key[1][2]
    /\ get(<<mlast.key[1][2], mlast.key[1][1]>>) = mlast.val
    /\ get_in(mpre.backing, mlast.key[1]) # mlast.val
    /\ \E k2 \in MKeys : hash(k2) # hash(mlast.key[1])

\* C5: a call of Map.insert, swap, get (indexed read), get_mut (indexed
\* write), Set.insert, erase or contains whose key hashes to an index >=
\* size() ends in the out-of-range panic, returns nothing, and leaves the
\* backing store and the caller's variable as they were before the call.
OutOfRangeFails ==
    /\ (/\ mlast.op \in {"insert", "swap", "get", "get_mut"}
        /\ hash(mlast.key[1]) >= size(mn))
       => /\ mstate = "panicked"
          /\ mfail = "out_of_range"
          /\ mlast.ret = None
          /\ mbacking = mpre.backing
          /\ Some(held) = mpre.held
    /\ (/\ slast.op \in {"insert", "erase", "contains"}
        /\ hash(slast.key[1]) >= size(sn))
       => /\ sstate = "panicked"
          /\ sfail = "out_of_range"
          /\ slast.ret = None
          /\ sbits = spre

\* A swap under the key (0, n), whose index is size() itself, on a map with
\* slots, the caller holding a value no slot holds.
OutOfRangeWitness ==
    /\ mstate = "panicked"
    /\ mlast.op = "swap"
    /\ mlast.key = Some(<<0, mn>>)
    /\ hash(mlast.key[1]) = size(mn)
    /\ mn >= 2
    /\ \A i \in 1 .. Len(mbacking) : mbacking[i] # held

\* C6: a map built by new, from_element or from_initial has len() = size()
\* after every sequence of calls, is_empty() exactly when size() = 0, and a
\* value in every slot.
LenIsSize ==
    (mstate = "live" \/ (mstate = "panicked" /\ mfail = "out_of_range")) =>
        /\ len = size(mn)
        /\ is_empty <=> (size(mn) = 0)
        /\ \A i \in 1 .. len : mbacking[i] \in Values

\* An iter_mut that has gone through a map of three slots or more, built by
\* from_initial, and has changed it.
LenIsSizeWitness ==
    /\ mstate = "live"
    /\ miter.kind = "iter_mut"
    /\ Len(mout) > size(mn)
    /\ size(mn) >= 3
    /\ ~is_empty
    /\ \E i \in 1 .. len : mbacking[i] # mbacking[1]

\* C7: right after Map::new every key of the domain reads the default value,
\* right after Map::from_element(hash, value) every key reads `value`, and
\* in a map built by either, a key whose index has not been written through
\* since (by insert, swap, get_mut, an indexed write, iter_mut or values_mut)
\* still reads the value the map was filled with.
FilledUniformly ==
    /\ mlast.op = "new" =>
          \A k \in MKeys : get(k) = Some(DefaultValue)
    /\ mlast.op = "from_element" =>
          \A k \in MKeys : get(k) = mlast.val
    /\ (mstate = "live" /\ mfill # None) =>
          \A k \in MKeys : hash(k) \notin written => get(k) = mfill

\* A map filled with a value other than the default, two of whose slots
\* have been written since, one of them with another value, and one not.
FilledUniformlyWitness ==
    /\ mstate = "live"
    /\ mfill # None
    /\ mfill # Some(DefaultValue)
    /\ Cardinality(written) = 2
    /\ \E k \in MKeys : hash(k) \in written /\ get(k) # mfill
    /\ \E k \in MKeys : hash(k) \notin written /\ get(k) = mfill

\* C8: after swap(k, &mut v) the slot at hash(k) holds what the caller held
\* and the caller holds what the slot held, every other slot is as before,
\* and the same swap once more gives back the backing array and the caller's
\* value of before the first.
SwapExchanges ==
    (mstate = "live" /\ mlast.op = "swap") =>
        LET k == mlast.key[1] IN
        /\ get(k) = mpre.held
        /\ Some(held) = get_in(mpre.backing, k)
        /\ \A k2 \in MKeys :
              hash(k2) # hash(k) => get(k2) = get_in(mpre.backing, k2)
        /\ swapped(mbacking, hash(k), held) = <<mpre.backing, mpre.held[1]>>

\* A swap that exchanged two different values, in a map with other slots.
SwapExchangesWitness ==
    /\ mstate = "live"
    /\ mlast.op = "swap"
    /\ Some(held) # mpre.held
    /\ get(mlast.key[1]) # Some(held)
    /\ mlast.key[1][1] > mlast.key[1][2]
    /\ \E k2 \in MKeys : hash(k2) # hash(mlast.key[1])

\* C9: from_initial(hash, values) panics with the length mismatch and builds
\* no map when the length of `values` is not size(), shorter or longer; when
\* it is, slot i of the map holds values[i], so get(k) is values[hash(k)].
FromInitialChecked ==
    mlast.op = "from_initial" =>
        LET init == mlast.val[1] IN
        IF Len(init) # size(mn)
        THEN /\ mstate = "panicked"
             /\ mfail = "length_mismatch"
             /\ mbacking = <<>>
        ELSE /\ mstate = "live"
             /\ len = Len(init)
             /\ \A k \in MKeys : get(k) = Some(init[hash(k) + 1])

\* from_initial with one value more than the domain has indices.
FromInitialCheckedWitness ==
    /\ mlast.op = "from_initial"
    /\ mstate = "panicked"
    /\ Len(mlast.val[1]) = size(mn) + 1
    /\ size(mn) >= 3

\* What an iterator returned before it first returned None.
BeforeNone(out) ==
    LET stops == {j \in 1 .. Len(out) : out[j] = None}
        first == IF stops = {} THEN Len(out) + 1
                 ELSE CHOOSE j \in stops : \A i \in stops : j <= i
    IN  SubSeq(out, 1, first - 1)

\* Whether seq p is a prefix of seq q.
IsPrefix(p, q) == Len(p) <= Len(q) /\ p = SubSeq(q, 1, Len(p))

\* C4: Map.iter() and iter_mut() yield exactly size() pairs, the i-th
\* (0-based) being invert(i) and a reference to slot i, in ascending index
\* order; once next() has returned None it returns None ever after; and the
\* slots they yield are those values() yields, in the same order.
MapIterInOrder ==
    (mstate = "live" /\ miter.kind \in {"iter", "iter_mut"}) =>
        /\ \A j \in 1 .. Len(mout) :
              IF j <= size(mn)
              THEN mout[j] = Some([key |-> invert(mn, j - 1), ref |-> j - 1])
              ELSE mout[j] = None
        /\ \A i, j \in 1 .. Len(mout) :
              (i < j /\ mout[i] = None) => mout[j] = None
        /\ IsPrefix([j \in 1 .. Len(BeforeNone(mout)) |-> mout[j][1].ref],
                    collect(mbacking, 0))
        /\ Nones > 0 =>
              [j \in 1 .. Len(BeforeNone(mout)) |-> mout[j][1].ref]
                 = collect(mbacking, 0)

\* An iter() over a map of three slots or more that has returned None and
\* has been called again, twice.
MapIterInOrderWitness ==
    /\ mstate = "live"
    /\ miter.kind = "iter"
    /\ size(mn) >= 3
    /\ Len(mout) = size(mn) + 3

\* The keys of the set's domain.
SKeys == Domain(sn)

\* C2: Set.insert(k) sets the bit at hash(k) and returns whether it was set
\* before the call, Set.erase(k) clears it and returns whether it was set
\* before the call, neither changes the bit of another index, and
\* contains(k2) is true exactly when the last insert or erase of a key with
\* the hash of k2 was an insert.
SetMembership ==
    /\ (sstate = "live" /\ slast.op \in {"insert", "erase"}) =>
          LET k == slast.key[1] IN
          /\ slast.ret = bv_get(spre, hash(k))
          /\ contains(k) = Some(slast.op = "insert")
          /\ \A k2 \in SKeys :
                hash(k2) # hash(k) => contains(k2) = bv_get(spre, hash(k2))
    /\ sstate = "live" =>
          \A k2 \in SKeys : contains(k2) = Some(hash(k2) \in members)

\* An erase of a member under the reverse of a pair, other members staying.
SetMembershipWitness ==
    /\ sstate = "live"
    /\ slast.op = "erase"
    /\ slast.ret = Some(TRUE)
    /\ slast.key[1][1] > slast.key[1][2]
    /\ contains(<<slast.key[1][2], slast.key[1][1]>>) = Some(FALSE)
    /\ Cardinality(members) >= 2

\* invert(i) for the indices i >= idx whose bit is set, in ascending order.
RECURSIVE member_keys(_, _, _)
member_keys(b, nn, idx) ==
    IF idx >= Len(b)
    THEN <<>>
    ELSE (IF b[idx + 1] THEN <<invert(nn, idx)>> ELSE <<>>)
            \o member_keys(b, nn, idx + 1)

\* C3: a fresh Set.iter() yields, before its first None, the keys invert(i)
\* of the indices i whose bit is set, each once, in ascending index order,
\* and no key whose bit is cleared; it has yielded as many keys as bits are
\* set when it returns None.
SetIterYieldsMembers ==
    (sstate = "live" /\ siter # None) =>
        LET got == BeforeNone(sout) IN
        /\ IsPrefix(got, member_keys(sbits, sn, 0))
        /\ \A j \in 1 .. Len(got) : contains(got[j][1]) = Some(TRUE)
        /\ \A i, j \in 1 .. Len(got) :
              i < j => hash(got[i][1]) < hash(got[j][1])
        /\ SNones > 0 =>
              /\ got = member_keys(sbits, sn, 0)
              /\ Len(got) = Cardinality({i \in 1 .. Len(sbits) : sbits[i]})

\* An iterator that has returned None after three keys, over a set whose
\* first bit and a bit between two set ones are cleared.
SetIterYieldsMembersWitness ==
    /\ sstate = "live"
    /\ siter # None
    /\ SNones = 1
    /\ Len(sout) = 4
    /\ sout[4] = None
    /\ ~sbits[1]
    /\ \E i, j, l \in 1 .. Len(sbits) :
          i < j /\ j < l /\ sbits[i] /\ ~sbits[j] /\ sbits[l]

\* C10: in every state insert and erase reach from Set::new, is_empty() is
\* true exactly when no index is a member and is_full() exactly when every
\* index in [0, size()) is one; a new set is empty; over a domain of size 0
\* both are true.
EmptyAndFull ==
    sstate = "live" =>
        /\ set_is_empty <=> (members = {})
        /\ set_is_full <=> (members = 0 .. (size(sn) - 1))
        /\ slast.op = "new" => set_is_empty
        /\ size(sn) = 0 => (set_is_empty /\ set_is_full)

\* An erase from a full set of three indices or more.
EmptyAndFullWitness ==
    /\ sstate = "live"
    /\ slast.op = "erase"
    /\ Len(spre) >= 3
    /\ bv_all(spre)
    /\ ~set_is_full
    /\ ~set_is_empty

\* One pass of a SetIter over the set: its member keys in ascending index
\* order, and the None that ends the pass.
OnePass == Append(member_keys(sbits, sn, 0), None)

\* C13: a SetIter is not exhausted for good: the call of next() after one
\* that returned None starts again at index 0, so what one iterator returns
\* over all its calls is the member keys in ascending index order and a
\* None, again and again; over a set with no member every call returns None.
\* Inverting a member's index never panics.
SetIterRestarts ==
    /\ sfail # "invert"
    /\ (sstate = "live" /\ siter # None) =>
          /\ \A j \in 1 .. Len(sout) :
                sout[j] = OnePass[((j - 1) % Len(OnePass)) + 1]
          /\ (~bv_any(sbits)) => \A j \in 1 .. Len(sout) : sout[j] = None
          /\ (sout # <<>> /\ sout[Len(sout)] = None) => siter = Some(size(sn))

\* An iterator over a set of two members or more, the bit of index 0
\* cleared, that has gone through the set twice and returned None twice.
SetIterRestartsWitness ==
    /\ sstate = "live"
    /\ siter # None
    /\ Len(OnePass) >= 3
    /\ ~sbits[1]
    /\ Len(sout) = 2 * Len(OnePass)
    /\ SNones = 2
    /\ sout[Len(OnePass) + 1] # None

\* The domain of Pairs::new(4) in index order, as test_domain_iter has it.
PairsOfFour ==
    << <<0, 0>>, <<0, 1>>, <<1, 1>>, <<0, 2>>, <<1, 2>>, <<2, 2>>,
       <<0, 3>>, <<1, 3>>, <<2, 3>>, <<3, 3>> >>

\* C12: a fresh KeyIter yields exactly size() keys before its first None,
\* the i-th (0-based) being invert(i), never panicking; and for Pairs
\* hash(invert(i)) = i for every index i below size(), invert(i) being a key
\* of the domain; for n = 4 the keys are those of PairsOfFour, in order.
KeyIterRoundTrip ==
    /\ kfail = ""
    /\ kstate = "live" =>
          LET got == BeforeNone(kout) IN
          /\ Len(got) <= size(kn)
          /\ KNones > 0 => Len(got) = size(kn)
          /\ \A j \in 1 .. Len(got) :
                /\ got[j] = invert(kn, j - 1)
                /\ got[j] # None
                /\ hash(got[j][1]) = j - 1
          /\ kn = 4 =>
                \A j \in 1 .. Len(got) : got[j] = Some(PairsOfFour[j])
    /\ kstate # "none" =>
          \A i \in 0 .. (size(kn) - 1) :
             /\ invert(kn, i) # None
             /\ invert(kn, i)[1] \in Domain(kn)
             /\ hash(invert(kn, i)[1]) = i

\* A KeyIter over Pairs::new(4) that has yielded the ten keys and a None.
KeyIterRoundTripWitness ==
    /\ kstate = "live"
    /\ kn = 4
    /\ Len(kout) = 11
    /\ kout[10] = Some(<<3, 3>>)
    /\ kout[11] = None

\* What a caller can observe of a container whose backing is b: what get
\* (of a map) or contains (of a set) returns for every key of the domain,
\* and what an iteration over it yields.
Observed(b) ==
    IF ckind = "map"
    THEN [reads |-> [k \in Domain(cn) |-> get_in(b, k)],
          iter  |-> [j \in 1 .. Len(collect(b, 0)) |->
                        <<invert(cn, j - 1), slot(b, collect(b, 0)[j])>>]]
    ELSE [reads |-> [k \in Domain(cn) |-> has(b, hash(k))],
          iter  |-> member_keys(b, cn, 0)]

\* C11: a clone of a map or of a set reads, under every key, what the
\* original read when clone() was called; whatever insert, swap and erase
\* calls are made on the original afterwards, get, contains and iteration
\* on the clone give what they gave then; and calls on the clone leave what
\* the original gives unchanged likewise.
CloneIndependent ==
    cclone # None =>
        /\ ctouched = {} =>
              Observed(backing_of("clone")) = Observed(backing_of("original"))
        /\ "clone" \notin ctouched =>
              Observed(backing_of("clone")) = Observed(csnap[1])
        /\ "original" \notin ctouched =>
              Observed(backing_of("original")) = Observed(csnap[1])

\* A map of three slots or more, not uniform when it was cloned, two calls
\* on the original since, which now reads differently from its clone.
CloneIndependentWitness ==
    /\ ckind = "map"
    /\ cclone # None
    /\ Len(corig) >= 3
    /\ \E i \in 1 .. Len(csnap[1]) : csnap[1][i] # csnap[1][1]
    /\ ctouched = {"original"}
    /\ ccalls = 2
    /\ Cardinality({i \in 1 .. Len(corig) : corig[i] # csnap[1][i]}) = 2

====
